---- MODULE Spec2Model ----
(***************************************************************************)
(* Announcement endpoints of the High School Management System API         *)
(* (src/backend/routers/announcements.py).                                 *)
(*                                                                         *)
(* State: the announcements collection, the ObjectId generator of the      *)
(* store driver, and for every server worker the request it is handling    *)
(* and the response it produced.  Strings are sequences of character       *)
(* codes, so that string comparison (MongoDB $gt, Python >) and datetime   *)
(* parsing (datetime.fromisoformat) are two different things, as they are  *)
(* in the program.                                                          *)
(***************************************************************************)
EXTENDS Integers, Sequences, FiniteSets, TLC

VARIABLES store, nextId, call

vars == <<store, nextId, call>>

----------------------------------------------------------------------------
(* Bounds and input domains *)

\* ObjectIds the driver hands out before the model stops creating records.
MaxId == 2

\* The server's workers; each handles one request at a time.
Workers == {"w1", "w2"}

\* Character codes of the characters the modelled strings are made of.
Ch == [plus |-> 43, minus |-> 45, zero |-> 48, x |-> 120]

Digits == Ch.zero .. (Ch.zero + 9)

\* Python's None (start_date is Optional[str]); no string holds code 0.
None == <<0>>

\* The empty string.
Empty == <<>>

\* A scaled ISO-8601 string: one hour digit, optionally a sign and one digit
\* of UTC offset ("1" is naive 01:00, "2+1" is 02:00+01:00).
Naive(h) == <<Ch.zero + h>>
Aware(h, sign, off) == <<Ch.zero + h, sign, Ch.zero + off>>

\* A string that is no ISO-8601 datetime.
Garbage == <<Ch.x>>

----------------------------------------------------------------------------
(* Strings and datetimes *)

\* a < b for strings: code-point lexicographic, a proper prefix is smaller.
StrLess(a, b) ==
    \E i \in 1 .. Len(b) :
        /\ \A j \in 1 .. (i - 1) : j <= Len(a) /\ a[j] = b[j]
        /\ \/ i = Len(a) + 1
           \/ i <= Len(a) /\ a[i] < b[i]

StrGreater(a, b) == StrLess(b, a)

\* Python truthiness of an Optional[str]: None and "" are falsy.
Truthy(s) == s # None /\ s # Empty

\* datetime.fromisoformat: the parsed datetime, or a ValueError (ok = FALSE).
\* A datetime is its wall-clock hour and, when aware, its UTC offset.
FromIsoformat(s) ==
    IF Len(s) = 1 /\ s[1] \in Digits
    THEN [ok |-> TRUE, aware |-> FALSE, wall |-> s[1] - Ch.zero, off |-> 0]
    ELSE IF /\ Len(s) = 3
            /\ s[1] \in Digits
            /\ s[2] \in {Ch.plus, Ch.minus}
            /\ s[3] \in Digits
    THEN [ok |-> TRUE, aware |-> TRUE, wall |-> s[1] - Ch.zero,
          off |-> IF s[2] = Ch.plus THEN s[3] - Ch.zero ELSE Ch.zero - s[3]]
    ELSE [ok |-> FALSE, aware |-> FALSE, wall |-> 0, off |-> 0]

\* The instant a datetime names: aware datetimes compare by UTC time, naive
\* ones by wall-clock time.
Instant(d) == d.wall - d.off

\* datetime.now(timezone.utc).isoformat() at hour h.
UtcNowIso(h) == Aware(h, Ch.plus, 0)

----------------------------------------------------------------------------
(* ObjectIds *)

\* An ObjectId string is well formed iff it is exactly two hex digits
\* (24 in the driver); digit values 0..15, any other value is no hex digit.
IsValidObjectId(s) == Len(s) = 2 /\ \A i \in 1 .. 2 : s[i] \in 0 .. 15

\* ObjectId(announcement_id) and str(ObjectId).
ObjectIdOf(s) == s[1] * 16 + s[2]
ObjectIdStr(n) == <<n \div 16, n % 16>>

\* "not-a-valid-id"
NotAnId == <<16, 16, 16>>

----------------------------------------------------------------------------
(* Responses *)

Ok(detail, body) == [status |-> 200, detail |-> detail, body |-> body]
Fail(status, detail) == [status |-> status, detail |-> detail, body |-> <<>>]

\* A validator that returned without raising.
Passed == [status |-> 0, detail |-> "", body |-> <<>>]

----------------------------------------------------------------------------
(* Validators *)

\* The keys of teachers_collection (read only here).
Teachers == {"t1", "t2"}

\* A variant of _validate_teacher that only asks for a username.
ValidateTeacherAnyName(username) ==
    IF username # "" THEN Passed ELSE Fail(401, "Unauthorized")

\* _validate_teacher
ValidateTeacher(username) ==
    IF username \in Teachers THEN Passed ELSE Fail(401, "Unauthorized")

\* A variant of the comparison with start > exp: equal timestamps pass.
CompareDatesAllowEqual(start, exp) ==
    IF start.aware # exp.aware
    THEN Fail(500, "Internal Server Error")
    ELSE IF Instant(start) > Instant(exp)
    THEN Fail(400, "Start date must be before expiration date")
    ELSE Passed

\* start >= exp on two parsed datetimes; comparing a naive with an aware
\* datetime raises TypeError, which nothing catches: the framework answers 500.
CompareDates(start, exp) ==
    IF start.aware # exp.aware
    THEN Fail(500, "Internal Server Error")
    ELSE IF Instant(start) >= Instant(exp)
    THEN Fail(400, "Start date must be before expiration date")
    ELSE Passed

\* A variant of _validate_dates that compares the two strings, not the
\* datetimes they parse to.
ValidateDatesAsStrings(start_date, expiration_date) ==
    IF ~FromIsoformat(expiration_date).ok
    THEN Fail(400, "Invalid expiration date format")
    ELSE IF ~Truthy(start_date)
    THEN Passed
    ELSE IF ~FromIsoformat(start_date).ok
    THEN Fail(400, "Invalid start date format")
    ELSE IF ~StrLess(start_date, expiration_date)
    THEN Fail(400, "Start date must be before expiration date")
    ELSE Passed

\* _validate_dates
ValidateDates(start_date, expiration_date) ==
    LET exp == FromIsoformat(expiration_date)
        start == FromIsoformat(start_date)
    IN  IF ~exp.ok
        THEN Fail(400, "Invalid expiration date format")
        ELSE IF ~Truthy(start_date)
        THEN Passed
        ELSE IF ~start.ok
        THEN Fail(400, "Invalid start date format")
        ELSE CompareDates(start, exp)

----------------------------------------------------------------------------
(* The store *)

\* The document create_announcement builds.
NewDoc(message, start_date, expiration_date, username, now) ==
    [message |-> message, start_date |-> start_date,
     expiration_date |-> expiration_date, created_by |-> username,
     created_at |-> now]

\* _serialize_announcement: _id is replaced by id, its string form.
SerializeAnnouncement(oid, doc) ==
    [id |-> ObjectIdStr(oid), message |-> doc.message,
     start_date |-> doc.start_date, expiration_date |-> doc.expiration_date,
     created_by |-> doc.created_by, created_at |-> doc.created_at]

\* find(...).sort("created_at", -1) over the documents with ids in S:
\* newest first, documents of equal created_at in insertion order.
SortNewestFirst(S) ==
    CHOOSE s \in [1 .. Cardinality(S) -> S] :
        /\ \A i, j \in DOMAIN s : i # j => s[i] # s[j]
        /\ \A i, j \in DOMAIN s :
              i < j =>
                \/ StrGreater(store[s[i]].created_at, store[s[j]].created_at)
                \/ /\ store[s[i]].created_at = store[s[j]].created_at
                   /\ s[i] < s[j]

\* A variant of the write that replaces the document (replace_one) instead
\* of setting three of its fields.
UpdateOneReplace(st, oid, message, start_date, expiration_date) ==
    IF oid \in DOMAIN st
    THEN [st EXCEPT ![oid] = NewDoc(message, start_date, expiration_date, "", Empty)]
    ELSE st

\* A variant of the write with upsert=True: a missing document is created.
UpdateOneUpsert(st, oid, message, start_date, expiration_date) ==
    [k \in DOMAIN st \cup {oid} |->
        IF k # oid
        THEN st[k]
        ELSE IF oid \in DOMAIN st
        THEN [st[k] EXCEPT !.message = message, !.start_date = start_date,
                           !.expiration_date = expiration_date]
        ELSE NewDoc(message, start_date, expiration_date, "", Empty)]

\* update_one({"_id": obj_id}, {"$set": update_data}): no document, no change.
UpdateOne(st, oid, message, start_date, expiration_date) ==
    IF oid \in DOMAIN st
    THEN [st EXCEPT ![oid] = [@ EXCEPT !.message = message,
                                       !.start_date = start_date,
                                       !.expiration_date = expiration_date]]
    ELSE st

\* delete_one({"_id": obj_id}): the store without the document.
DeleteOne(st, oid) == [k \in DOMAIN st \ {oid} |-> st[k]]

\* insert_one(doc) under the ObjectId the driver generated.
InsertOne(st, oid, doc) == [k \in DOMAIN st \cup {oid} |-> IF k = oid THEN doc ELSE st[k]]

----------------------------------------------------------------------------
(* Requests *)

\* A worker with no request in hand.
Idle ==
    [pc |-> "idle", op |-> "none", user |-> "", id |-> Empty, message |-> "",
     start_date |-> None, expiration_date |-> Empty, now |-> Empty,
     resp |-> Passed]

Request(op, user, id, message, start_date, expiration_date, now) ==
    [pc |-> "idle", op |-> op, user |-> user, id |-> id, message |-> message,
     start_date |-> start_date, expiration_date |-> expiration_date,
     now |-> now, resp |-> Passed]

\* The handler returned or raised: the response is on its way to the caller.
Done(req, resp) == [req EXCEPT !.pc = "done", !.resp = resp]

Init ==
    /\ store = <<>>
    /\ nextId = 1
    /\ call = [w \in Workers |-> Idle]

\* GET /announcements/
ListAnnouncements(w) ==
    /\ call[w].pc = "idle"
    /\ LET docs == SortNewestFirst(DOMAIN store)
           body == [i \in DOMAIN docs |-> SerializeAnnouncement(docs[i], store[docs[i]])]
       IN  call' = [call EXCEPT ![w] =
                       Done(Request("list", "", Empty, "", None, Empty, Empty),
                            Ok("", body))]
    /\ UNCHANGED <<store, nextId>>

\* The documents the query {"expiration_date": {"$gt": now}} matches.
NotExpired(now) ==
    {k \in DOMAIN store : StrGreater(store[k].expiration_date, now)}

\* The loop of list_active_announcements: a document whose start_date is
\* truthy and greater than now is skipped.
Started(doc, now) == ~(Truthy(doc.start_date) /\ StrGreater(doc.start_date, now))

\* The ids list_active_announcements returns, in order.
ActiveIds(now) ==
    SelectSeq(SortNewestFirst(NotExpired(now)), LAMBDA k : Started(store[k], now))

\* GET /announcements/active, at hour h
ListActiveAnnouncements(w, h) ==
    /\ call[w].pc = "idle"
    /\ LET now == UtcNowIso(h)
           docs == ActiveIds(now)
           body == [i \in DOMAIN docs |-> SerializeAnnouncement(docs[i], store[docs[i]])]
       IN  call' = [call EXCEPT ![w] =
                       Done(Request("active", "", Empty, "", None, Empty, now),
                            Ok("", body))]
    /\ UNCHANGED <<store, nextId>>

\* The checks of create_announcement, in the order the handler makes them.
CreateChecks(username, start_date, expiration_date) ==
    IF ValidateTeacher(username) # Passed
    THEN ValidateTeacher(username)
    ELSE ValidateDates(start_date, expiration_date)

\* POST /announcements/, at hour h
CreateAnnouncement(w, username, message, start_date, expiration_date, h) ==
    /\ call[w].pc = "idle"
    /\ LET now == UtcNowIso(h)
           req == Request("create", username, Empty, message, start_date,
                          expiration_date, now)
           chk == CreateChecks(username, start_date, expiration_date)
           doc == NewDoc(message, start_date, expiration_date, username, now)
       IN  IF chk # Passed
           THEN /\ call' = [call EXCEPT ![w] = Done(req, chk)]
                /\ UNCHANGED <<store, nextId>>
           ELSE /\ nextId <= MaxId
                /\ store' = InsertOne(store, nextId, doc)
                /\ nextId' = nextId + 1
                /\ call' = [call EXCEPT ![w] =
                               Done(req, Ok("", <<SerializeAnnouncement(nextId, doc)>>))]

\* The checks of update_announcement that precede its first read of the
\* announcements collection.
UpdateChecks(username, announcement_id, start_date, expiration_date) ==
    IF ValidateTeacher(username) # Passed
    THEN ValidateTeacher(username)
    ELSE IF ValidateDates(start_date, expiration_date) # Passed
    THEN ValidateDates(start_date, expiration_date)
    ELSE IF ~IsValidObjectId(announcement_id)
    THEN Fail(400, "Invalid announcement ID")
    ELSE Passed

\* PUT /announcements/{announcement_id}, up to and including find_one
UpdateAnnouncementFind(w, username, announcement_id, message, start_date, expiration_date) ==
    /\ call[w].pc = "idle"
    /\ LET req == Request("update", username, announcement_id, message,
                          start_date, expiration_date, Empty)
           chk == UpdateChecks(username, announcement_id, start_date,
                               expiration_date)
       IN  call' = [call EXCEPT ![w] =
                IF chk # Passed
                THEN Done(req, chk)
                ELSE IF ObjectIdOf(announcement_id) \notin DOMAIN store
                THEN Done(req, Fail(404, "Announcement not found"))
                ELSE [req EXCEPT !.pc = "found"]]
    /\ UNCHANGED <<store, nextId>>

\* PUT /announcements/{announcement_id}, from update_one to the return
UpdateAnnouncementWrite(w) ==
    /\ call[w].pc = "found"
    /\ store' = UpdateOne(store, ObjectIdOf(call[w].id), call[w].message,
                          call[w].start_date, call[w].expiration_date)
    /\ call' = [call EXCEPT ![w] =
                   Done(@, Ok("Announcement updated successfully", <<>>))]
    /\ UNCHANGED nextId

\* The checks of delete_announcement that precede delete_one.
DeleteChecks(username, announcement_id) ==
    IF ValidateTeacher(username) # Passed
    THEN ValidateTeacher(username)
    ELSE IF ~IsValidObjectId(announcement_id)
    THEN Fail(400, "Invalid announcement ID")
    ELSE Passed

\* result.deleted_count of delete_one({"_id": obj_id})
DeletedCount(st, oid) == IF oid \in DOMAIN st THEN 1 ELSE 0

\* A variant that never looks at deleted_count.
DeleteResultUnchecked(deleted_count) ==
    Ok("Announcement deleted successfully", <<>>)

\* A variant with the test on deleted_count the wrong way round.
DeleteResultInverted(deleted_count) ==
    IF deleted_count # 0
    THEN Fail(404, "Announcement not found")
    ELSE Ok("Announcement deleted successfully", <<>>)

\* What delete_announcement answers once delete_one has run.
DeleteResult(deleted_count) ==
    IF deleted_count = 0
    THEN Fail(404, "Announcement not found")
    ELSE Ok("Announcement deleted successfully", <<>>)

\* DELETE /announcements/{announcement_id}
DeleteAnnouncement(w, username, announcement_id) ==
    /\ call[w].pc = "idle"
    /\ LET req == Request("delete", username, announcement_id, "", None,
                          Empty, Empty)
           chk == DeleteChecks(username, announcement_id)
           oid == ObjectIdOf(announcement_id)
       IN  IF chk # Passed
           THEN /\ call' = [call EXCEPT ![w] = Done(req, chk)]
                /\ UNCHANGED store
           ELSE /\ store' = DeleteOne(store, oid)
                /\ call' = [call EXCEPT ![w] =
                               Done(req, DeleteResult(DeletedCount(store, oid)))]
    /\ UNCHANGED nextId

\* The response has been sent; the worker takes the next request.
Return(w) ==
    /\ call[w].pc = "done"
    /\ call' = [call EXCEPT ![w] = Idle]
    /\ UNCHANGED <<store, nextId>>

----------------------------------------------------------------------------
(* Specification Spec: one worker, requests handled one after the other *)

Users == Teachers \cup {"eve"}

Messages == {"a", "b"}

\* The identifiers a request may name: every ObjectId the store may hold,
\* one it never holds, and a malformed one.
Identifiers == {ObjectIdStr(n) : n \in 1 .. (MaxId + 1)} \cup {NotAnId}

Hours == {1, 2}

StartDates == {None, Naive(1), Aware(1, Ch.plus, 0)}

ExpirationDates == {Garbage, Aware(1, Ch.plus, 0), Aware(2, Ch.plus, 0)}

Next ==
    \/ ListAnnouncements("w1")
    \/ \E h \in Hours : ListActiveAnnouncements("w1", h)
    \/ \E u \in Users, m \in Messages, s \in StartDates, e \in ExpirationDates :
          CreateAnnouncement("w1", u, m, s, e, 1)
    \/ \E u \in Users, i \in Identifiers, m \in Messages, s \in StartDates,
          e \in ExpirationDates :
          UpdateAnnouncementFind("w1", u, i, m, s, e)
    \/ UpdateAnnouncementWrite("w1")
    \/ \E u \in Users, i \in Identifiers : DeleteAnnouncement("w1", u, i)
    \/ Return("w1")

Spec == Init /\ [][Next]_vars

----------------------------------------------------------------------------
(* Specification SpecDates: one worker, every shape of date string *)

\* "", "x", "1", "1+0", "2+0" and "2+1" (02:00+01:00, the instant of "1+0").
DateStrings ==
    {Empty, Garbage, Naive(1), Aware(1, Ch.plus, 0), Aware(2, Ch.plus, 0),
     Aware(2, Ch.plus, 1)}

NextDates ==
    \/ \E h \in Hours : ListActiveAnnouncements("w1", h)
    \/ \E u \in {"t1", "eve"}, s \in DateStrings \cup {None},
          e \in DateStrings :
          CreateAnnouncement("w1", u, "a", s, e, 1)
    \/ \E u \in {"t1", "eve"}, i \in Identifiers, s \in DateStrings \cup {None},
          e \in DateStrings :
          UpdateAnnouncementFind("w1", u, i, "a", s, e)
    \/ UpdateAnnouncementWrite("w1")
    \/ \E i \in Identifiers : DeleteAnnouncement("w1", "t1", i)
    \/ Return("w1")

SpecDates == Init /\ [][NextDates]_vars

----------------------------------------------------------------------------
(* Specification SpecConc: the workers run concurrently; every access to   *)
(* the announcements collection is one atomic step                         *)

ConcExpirationDates == {Aware(1, Ch.plus, 0), Aware(2, Ch.plus, 0)}

NextConc ==
    \E w \in Workers :
        \/ ListAnnouncements(w)
        \/ ListActiveAnnouncements(w, 1)
        \/ \E m \in Messages, e \in ConcExpirationDates :
              CreateAnnouncement(w, "t1", m, None, e, 1)
        \/ \E i \in Identifiers, m \in Messages, e \in ConcExpirationDates :
              UpdateAnnouncementFind(w, "t2", i, m, None, e)
        \/ UpdateAnnouncementWrite(w)
        \/ \E i \in Identifiers : DeleteAnnouncement(w, "t1", i)
        \/ Return(w)

SpecConc == Init /\ [][NextConc]_vars

----------------------------------------------------------------------------
(* Properties *)

\* Worker w's handler returns or raises in this step.
Completes(w) == call[w].pc # "done" /\ call'[w].pc = "done"

WriteOps == {"create", "update", "delete"}

\* The ObjectIds of the records a response carries.
ReturnedIds(resp) == {ObjectIdOf(resp.body[i].id) : i \in DOMAIN resp.body}

\* start_date, when present (neither None nor ""), names an instant strictly
\* before the one expiration_date names.
StartPrecedesExpiration(start_date, expiration_date) ==
    Truthy(start_date) =>
        LET s == FromIsoformat(start_date)
            e == FromIsoformat(expiration_date)
        IN  s.ok /\ e.ok /\ s.aware = e.aware /\ Instant(s) < Instant(e)

\* start_date and expiration_date are the same string or name the same instant.
SameTimestamp(start_date, expiration_date) ==
    \/ start_date = expiration_date
    \/ LET s == FromIsoformat(start_date)
           e == FromIsoformat(expiration_date)
       IN  s.ok /\ e.ok /\ s.aware = e.aware /\ Instant(s) = Instant(e)

\* C1: every persisted announcement whose start_date is present has
\* start_date < expiration_date, and so has every record a successful create
\* returns.
C1_DatesOrdered ==
    /\ \A k \in DOMAIN store :
          StartPrecedesExpiration(store[k].start_date, store[k].expiration_date)
    /\ \A w \in Workers :
          (call[w].pc = "done" /\ call[w].op = "create" /\ call[w].resp.status = 200)
          => StartPrecedesExpiration(call[w].resp.body[1].start_date,
                                     call[w].resp.body[1].expiration_date)

\* C1 witness: a create with start 02:00+01:00 and expiration 02:00+00:00
\* succeeded and its record is in the store.
C1_Witness ==
    \E w \in Workers :
        /\ call[w].pc = "done" /\ call[w].op = "create"
        /\ call[w].resp.status = 200
        /\ call[w].resp.body[1].start_date = Aware(2, Ch.plus, 1)
        /\ call[w].resp.body[1].expiration_date = Aware(2, Ch.plus, 0)
        /\ ObjectIdOf(call[w].resp.body[1].id) \in DOMAIN store
        /\ store[ObjectIdOf(call[w].resp.body[1].id)].start_date = Aware(2, Ch.plus, 1)

\* C2: update and delete with a malformed identifier, called by a teacher,
\* answer 400 (never 404 or 500), whatever the body.
C2_InvalidIdIs400 ==
    \A w \in Workers :
        (/\ call[w].pc = "done"
         /\ call[w].op \in {"update", "delete"}
         /\ call[w].user \in Teachers
         /\ ~IsValidObjectId(call[w].id))
        => call[w].resp.status = 400

\* C3 as stated: update and delete with a well-formed identifier the store
\* holds no record for answer 404, for every caller and every body (bodies
\* that mix a naive with an aware timestamp, whose comparison raises, aside).
C3_Original ==
    [][\A w \in Workers :
          (/\ Completes(w)
           /\ call'[w].op \in {"update", "delete"}
           /\ call'[w].resp.status # 500
           /\ IsValidObjectId(call'[w].id)
           /\ ObjectIdOf(call'[w].id) \notin DOMAIN store)
          => call'[w].resp.status = 404]_vars

\* C3 amended: update and delete with a well-formed identifier the store
\* holds no record for answer 404 when the caller is a teacher and, for
\* update, the body's dates pass _validate_dates.
C3_AbsentIdIs404 ==
    [][\A w \in Workers :
          (/\ Completes(w)
           /\ call'[w].op \in {"update", "delete"}
           /\ call'[w].user \in Teachers
           /\ call'[w].op = "update" =>
                 ValidateDates(call'[w].start_date, call'[w].expiration_date) = Passed
           /\ IsValidObjectId(call'[w].id)
           /\ ObjectIdOf(call'[w].id) \notin DOMAIN store)
          => /\ call'[w].resp.status = 404
             /\ call'[w].resp.detail = "Announcement not found"]_vars

\* C3 witness: a teacher's update of a deleted record's identifier was
\* answered 404 while the store holds another record.
C3_Witness ==
    \E w \in Workers :
        /\ call[w].pc = "done" /\ call[w].op = "update"
        /\ call[w].user \in Teachers
        /\ IsValidObjectId(call[w].id)
        /\ ObjectIdOf(call[w].id) \notin DOMAIN store
        /\ ObjectIdOf(call[w].id) < nextId
        /\ DOMAIN store # {}
        /\ call[w].resp.status = 404

\* C4 as stated: create and update with a start_date that names the instant
\* expiration_date names answer 400 for every caller.
C4_Original ==
    \A w \in Workers :
        (/\ call[w].pc = "done"
         /\ call[w].op \in {"create", "update"}
         /\ FromIsoformat(call[w].start_date).ok
         /\ SameTimestamp(call[w].start_date, call[w].expiration_date))
        => call[w].resp.status = 400

\* C4 amended: create and update called by a teacher with start_date equal
\* to expiration_date answer 400 and leave the store as it was.
C4_EqualDatesRejected ==
    [][\A w \in Workers :
          (/\ Completes(w)
           /\ call'[w].op \in {"create", "update"}
           /\ call'[w].user \in Teachers
           /\ SameTimestamp(call'[w].start_date, call'[w].expiration_date))
          => /\ call'[w].resp.status = 400
             /\ store' = store
             /\ nextId' = nextId]_vars

\* C4 witness: a teacher's update of an existing record with start
\* 02:00+01:00 and expiration 01:00+00:00, the same instant, was answered 400.
C4_Witness ==
    \E w \in Workers :
        /\ call[w].pc = "done" /\ call[w].op = "update"
        /\ call[w].user \in Teachers
        /\ IsValidObjectId(call[w].id)
        /\ ObjectIdOf(call[w].id) \in DOMAIN store
        /\ call[w].start_date = Aware(2, Ch.plus, 1)
        /\ call[w].expiration_date = Aware(1, Ch.plus, 0)
        /\ call[w].resp.status = 400
        /\ call[w].resp.detail = "Start date must be before expiration date"

\* The instant a stored timestamp string names.
InstantOf(s) == Instant(FromIsoformat(s))

\* C5: list-active returns exactly the stored records whose expiration_date
\* is after now and whose start_date is absent or not after now.
C5_ActiveIsTimeWindow ==
    \A w \in Workers :
        (call[w].pc = "done" /\ call[w].op = "active")
        => ReturnedIds(call[w].resp) =
              {k \in DOMAIN store :
                  /\ InstantOf(store[k].expiration_date) > InstantOf(call[w].now)
                  /\ \/ ~Truthy(store[k].start_date)
                     \/ InstantOf(store[k].start_date) <= InstantOf(call[w].now)}

\* C6: a successful update of record i sets its message, start_date and
\* expiration_date and nothing else: created_by and created_at of every
\* record never change, and no other record is touched.
C6_UpdateFrame ==
    [][/\ \A k \in DOMAIN store \cap DOMAIN store' :
             /\ store'[k].created_by = store[k].created_by
             /\ store'[k].created_at = store[k].created_at
       /\ \A w \in Workers :
             (Completes(w) /\ call'[w].op = "update" /\ call'[w].resp.status = 200)
             => LET i == ObjectIdOf(call'[w].id)
                IN  /\ DOMAIN store' = DOMAIN store
                    /\ i \in DOMAIN store
                    /\ \A k \in DOMAIN store \ {i} : store'[k] = store[k]
                    /\ store'[i].message = call'[w].message
                    /\ store'[i].start_date = call'[w].start_date
                    /\ store'[i].expiration_date = call'[w].expiration_date]_vars

\* C6 witness: teacher t2 has updated a record teacher t1 created, changing
\* its message and start_date, while the store holds a second record.
C6_Witness ==
    \E w \in Workers :
        /\ call[w].pc = "done" /\ call[w].op = "update"
        /\ call[w].resp.status = 200
        /\ call[w].user = "t2"
        /\ call[w].message = "b"
        /\ call[w].start_date = Aware(1, Ch.plus, 0)
        /\ Cardinality(DOMAIN store) = 2
        /\ LET doc == store[ObjectIdOf(call[w].id)]
           IN  /\ doc.created_by = "t1"
               /\ doc.created_at = UtcNowIso(1)
               /\ doc.message = "b"
               /\ doc.start_date = Aware(1, Ch.plus, 0)

\* C7: create, update and delete called with a username that is no key of
\* the teacher store answer 401, whatever the body and identifier, and leave
\* the store as it was; the store changes only in a request of a teacher.
C7_UnknownCallerIs401 ==
    [][/\ \A w \in Workers :
             (/\ Completes(w)
              /\ call'[w].op \in WriteOps
              /\ call'[w].user \notin Teachers)
             => /\ call'[w].resp.status = 401
                /\ store' = store
       /\ store' # store =>
             \E w \in Workers :
                 /\ call[w].pc # "done" /\ call'[w].pc = "done"
                 /\ call'[w].op \in WriteOps
                 /\ call'[w].user \in Teachers]_vars

\* C7 witness: an unknown caller's update with a malformed identifier and an
\* unparseable expiration date was answered 401, with a record in the store.
C7_Witness ==
    \E w \in Workers :
        /\ call[w].pc = "done" /\ call[w].op = "update"
        /\ call[w].user \notin Teachers
        /\ ~IsValidObjectId(call[w].id)
        /\ call[w].expiration_date = Garbage
        /\ call[w].resp.status = 401
        /\ DOMAIN store # {}

\* C8: a create, update or delete that is answered 401, 400 or 404 leaves
\* the store as it was, and the two list operations never change it.
C8_NoPartialApplication ==
    [][\A w \in Workers :
          (/\ Completes(w)
           /\ \/ call'[w].resp.status \in {400, 401, 404}
              \/ call'[w].op \in {"list", "active"})
          => /\ store' = store
             /\ nextId' = nextId]_vars

\* C8 witness: a teacher's delete of an identifier the store no longer holds
\* was answered 404 while the store holds a record.
C8_Witness ==
    \E w \in Workers :
        /\ call[w].pc = "done" /\ call[w].op = "delete"
        /\ call[w].user \in Teachers
        /\ call[w].resp.status = 404
        /\ ObjectIdOf(call[w].id) < nextId
        /\ DOMAIN store # {}

\* C9: in every interleaving, update answers 404 whenever no record with the
\* identifier exists, and acknowledges success only when its message,
\* start_date and expiration_date have been written to an existing record.
C9_UpdateAckMeansWritten ==
    [][\A w \in Workers :
          (Completes(w) /\ call'[w].op = "update" /\ call'[w].resp.status = 200)
          => LET i == ObjectIdOf(call'[w].id)
             IN  /\ i \in DOMAIN store'
                 /\ store'[i].message = call'[w].message
                 /\ store'[i].start_date = call'[w].start_date
                 /\ store'[i].expiration_date = call'[w].expiration_date]_vars

\* C10: a delete is acknowledged only for the request that removed the
\* record, and every other delete of that identifier answers 404; a removed
\* record never comes back (no interleaved update restores it), is in no
\* list afterwards, and a delete changes no other record.
C10_DeleteOnce ==
    [][/\ \A w \in Workers :
             (Completes(w) /\ call'[w].op = "delete" /\ call'[w].resp.status \in {200, 404})
             => LET i == ObjectIdOf(call'[w].id)
                IN  /\ call'[w].resp.status = 200 <=> i \in DOMAIN store
                    /\ DOMAIN store' = DOMAIN store \ {i}
                    /\ \A k \in DOMAIN store' : store'[k] = store[k]
       /\ \A k \in 1 .. (nextId - 1) : k \notin DOMAIN store => k \notin DOMAIN store'
       /\ \A w \in Workers :
             (Completes(w) /\ call'[w].op \in {"list", "active"})
             => ReturnedIds(call'[w].resp) \subseteq DOMAIN store]_vars

\* C10 witness: two workers deleted the same identifier concurrently; one
\* was acknowledged, the other answered 404, and the other record is still
\* in the store.
C10_Witness ==
    \E w, v \in Workers :
        /\ w # v
        /\ call[w].pc = "done" /\ call[w].op = "delete"
        /\ call[v].pc = "done" /\ call[v].op = "delete"
        /\ call[w].id = call[v].id
        /\ call[w].resp.status = 200
        /\ call[v].resp.status = 404
        /\ ObjectIdOf(call[w].id) \notin DOMAIN store
        /\ DOMAIN store # {}

====
